---- MODULE Spec2Model ----
(***************************************************************************)
(* Model of the dmx_grabber extraction pipeline: run() of processor.py     *)
(* (enumeration, resume filtering, single-worker and multi-worker          *)
(* dispatch, ordered commit, operator interrupt) together with the sink    *)
(* and the progress sidecar of exporter.py.                                *)
(*                                                                         *)
(* processor.py imports the sink append under the name append_to_csv; the  *)
(* append that exporter.py defines is append_to_excel, and that is the     *)
(* function modelled here as the sink.                                     *)
(*                                                                         *)
(* Spec is run() on an output path never written.  ParserSpec applies      *)
(* normalize_gs1_raw and parse_honest_mark of parser.py to one payload,    *)
(* FilterSpec applies the filter of the sink to one string, and SinkSpec   *)
(* calls the sink directly on an output path that may already hold files.  *)
(* LimitSpec is run() called again and again with a page limit, WorkerSpec *)
(* is the page worker of processor.py and decoder.py on one page, EncSpec  *)
(* hands one code in each separator encoding to the parser, and PoolSpec   *)
(* and LiveSpec are one multi-worker run with more tasks than workers,     *)
(* LiveSpec under fair scheduling.                                         *)
(***************************************************************************)
EXTENDS Integers, Sequences, FiniteSets, TLC

(***************************************************************************)
(* Bounds of the model.                                                    *)
(***************************************************************************)
\* pages per PDF: 0..MaxPages
MaxPages == 2
\* pages of the whole input directory: 0..MaxTotalPages
MaxTotalPages == 3
\* worker counts tried: 1..MaxWorkers
MaxWorkers == 2
\* run() is invoked at most MaxSessions times on the same output path
MaxSessions == 2
\* operator interrupts over all sessions
MaxInterrupts == 1
\* processor.py:32 sets SAVE_EVERY = 50; scaled down so that a handful of
\* pages fills a batch
SAVE_EVERY == 2

\* sorted(input_dir.glob("*.pdf")), processor.py:131
Files == <<"a.pdf", "b.pdf">>

\* Python's None, for a raw code, for a page number and for page_limit
None == <<0 - 1>>
NoPage == 0 - 1
NoLimit == 0 - 1

\* a file on disk: whether it exists, its rows (lines), and what a reader
\* finds in it: "lines" is what this program writes (the single-column codes
\* workbook, the sidecar CSV)
MissingFile == [exists |-> FALSE, rows |-> <<>>, format |-> "none"]
FileOf(rows) == [exists |-> TRUE, rows |-> rows, format |-> "lines"]
\* an output workbook of the old format, a table with a header row and the
\* columns "Файл", "Страница" and "DataMatrix (raw)" (exporter.py:101-107,
\* 189-196); a row's src holds its first two columns, its text the third
LegacyFile(rows) == [exists |-> TRUE, rows |-> rows, format |-> "legacy"]
\* an output file that pd.read_excel cannot open, such as a workbook cut short
\* while it was being rewritten (exporter.py:98-99, 108-109)
DamagedFile(rows) == [exists |-> TRUE, rows |-> rows, format |-> "damaged"]

\* Status, models.py:7-12
Status_OK == "OK"
Status_NOT_FOUND == "NOT_FOUND"
Status_ERROR == "ERROR"

(***************************************************************************)
(* What the page worker finds on a page.  The rasterizer and the decoder   *)
(* are black boxes, and the decoder returns at most MAX_CODES_PER_PAGE = 1 *)
(* payload (decoder.py:10): a page yields a payload without control        *)
(* characters, a payload with a group separator and another control        *)
(* character, a payload that normalizes to the empty string, nothing, or   *)
(* an exception.                                                           *)
(***************************************************************************)
PageKinds == {"OK", "OK_CTRL", "OK_EMPTY", "NOT_FOUND", "ERROR"}

GS == 29

FileIndex(f) == CHOOSE i \in 1..Len(Files) : Files[i] = f

\* normalized payloads of page (f, display_page); characters are code points
CodeA(f, display_page) == <<64 + FileIndex(f), 48 + display_page>>
CodeB(f, display_page) == <<64 + FileIndex(f), 48 + display_page, GS, 57, 49, 1>>

VARIABLES
    pageCount,      \* input: file -> page count, -1 when the PDF cannot be opened
    pageKind,       \* input: (file, page_num) -> what the decoder finds there
    outFile,        \* the output file
    progFile,       \* the progress sidecar <output>.progress.csv
    workers, resume, page_limit,   \* arguments of run()
    pc,             \* position of the main thread inside run()
    session,        \* SessionStats
    done_pages, task_queue, ordered_page_keys,
    buffer, interrupted,
    ready_pages, next_page_idx,
    fut,            \* state of each submitted future
    yielded,        \* futures as_completed has already handed out
    cur,            \* index of the task being handled
    results,        \* results of the task being handled
    ridx,           \* position of the loop "for r in results"
    ret,            \* where the main thread continues after _flush_buffer
    \* history variables, read by the properties only
    sessNo,          \* number of calls of run() so far
    interrupts,      \* number of operator interrupts so far
    committed,       \* page keys moved into the buffer by this call, in order
    outLen0, progLen0,   \* lengths of the two files when this call began
    doneAtInterrupt, \* page keys of the futures finished when the interrupt came
    interruptAt,     \* where this call was when the interrupt came
    dispatched,      \* page keys handed to the page worker by this call
    prevKeys,        \* ordered_page_keys of the previous call
    \* the parser applied to one payload (parser.py)
    raw_code,        \* the payload handed to the parser
    code,            \* normalize_gs1_raw(raw_code)
    code2,           \* normalize_gs1_raw(code)
    mark,            \* parse_honest_mark(raw_code)
    pstep,           \* which of the parser's functions have been applied
    \* the sink called directly on an output path (exporter.py)
    appends,         \* number of calls of append_to_excel so far
    appended,        \* the (filename, page) pairs of the results handed to it
    \* the page worker on one page, pass by pass (processor.py, decoder.py)
    roiSet,          \* ROI_NORM is not None
    renders,         \* what render_page does for each image: "ok" or "raise"
    decodes,         \* what each decode pass gives: "empty", "payload", "raise"
    image,           \* the image in hand: "roi" (use_roi=True) or "full"
    hasCodes,        \* whether the last decode_datamatrix returned a payload
    wpc,             \* position of the worker
    trace,           \* the renders and decode passes done so far, in order
    wresult,         \* the outcome returned: "found", "not_found" or "error"
    \* one code written with each separator encoding (parser.py)
    parts,           \* the GTIN, serial, key and crypto tail of the code
    encoded          \* separator encoding -> what normalizing and parsing gave

vars == <<pageCount, pageKind, outFile, progFile, workers, resume, page_limit,
          pc, session, done_pages, task_queue, ordered_page_keys, buffer,
          interrupted, ready_pages, next_page_idx, fut, yielded, cur, results,
          ridx, ret, sessNo, interrupts, committed, outLen0, progLen0,
          doneAtInterrupt, interruptAt, dispatched, prevKeys,
          raw_code, code, code2, mark, pstep, appends, appended,
          roiSet, renders, decodes, image, hasCodes, wpc, trace, wresult,
          parts, encoded>>

\* what run() never writes: the input directory, and the variables of the
\* parser and of the direct sink calls
parserVars == <<raw_code, code, code2, mark, pstep>>
sinkVars == <<appends, appended>>
workerVars == <<roiSet, renders, decodes, image, hasCodes, wpc, trace, wresult>>
encVars == <<parts, encoded>>
inputVars == <<pageCount, pageKind, parserVars, sinkVars, workerVars, encVars>>
fileVars == <<outFile, progFile>>
argVars == <<workers, resume, page_limit>>
histVars == <<sessNo, interrupts, outLen0, progLen0, prevKeys>>

Range(s) == {s[i] : i \in 1..Len(s)}

RECURSIVE FlatMap(_, _)
\* concatenation of the sequences ss[i], ss[i+1], ...
FlatMap(ss, i) == IF i > Len(ss) THEN <<>> ELSE ss[i] \o FlatMap(ss, i + 1)

(***************************************************************************)
(* models.py                                                               *)
(***************************************************************************)
ProcessingResult(filename, page, raw, status) ==
    [filename |-> filename, page |-> page, datamatrix_raw |-> raw, status |-> status]

SessionStats(total_files) ==
    [total_files |-> total_files, processed_files |-> 0, total_pages |-> 0,
     pages_processed |-> 0, total_codes |-> 0, pages_empty |-> 0,
     files_with_errors |-> 0, errors |-> <<>>, resumed_from |-> 0,
     interrupted |-> FALSE]

(***************************************************************************)
(* processor.py: the page worker                                           *)
(***************************************************************************)
\* the worker returning nothing when rendering or decoding raises
ErrorOutcomeNone(f, display_page) == <<>>

\* lines 97-105: an exception of render_page or decode_datamatrix becomes one
\* Error result
ErrorOutcome(f, display_page) ==
    <<ProcessingResult(f, display_page, None, Status_ERROR)>>

\* _decode_single_page(pdf_path, page_num, ...): the list of results
DecodeSinglePage(f, page_num) ==
    LET display_page == page_num + 1
        kind == pageKind[<<f, page_num>>]
    IN  CASE kind = "OK" ->
               <<ProcessingResult(f, display_page, CodeA(f, display_page), Status_OK)>>
          [] kind = "OK_CTRL" ->
               <<ProcessingResult(f, display_page, CodeB(f, display_page), Status_OK)>>
          [] kind = "OK_EMPTY" ->
               <<ProcessingResult(f, display_page, <<>>, Status_OK)>>
          [] kind = "NOT_FOUND" ->
               <<ProcessingResult(f, display_page, None, Status_NOT_FOUND)>>
          [] OTHER -> ErrorOutcome(f, display_page)

(***************************************************************************)
(* parser.py: strings are sequences of code points, indices are Python's   *)
(* (0-based)                                                               *)
(***************************************************************************)
\* s[a:b] and s[a:] for a, b >= 0
Slice(s, a, b) == SubSeq(s, a + 1, IF b < Len(s) THEN b ELSE Len(s))
From(s, a) == SubSeq(s, a + 1, Len(s))

\* sub occurs in s at index i
MatchesAt(s, sub, i) ==
    /\ i >= 0
    /\ i + Len(sub) <= Len(s)
    /\ \A j \in 1..Len(sub) : s[i + j] = sub[j]

\* s.startswith(sub)
StartsWith(s, sub) == MatchesAt(s, sub, 0)

\* s.find(sub, start): the lowest index >= start where sub occurs, or -1
Find(s, sub, start) ==
    LET hits == {i \in start..(Len(s) - Len(sub)) : MatchesAt(s, sub, i)}
    IN  IF hits = {} THEN 0 - 1
        ELSE CHOOSE i \in hits : \A j \in hits : i <= j

\* str.isspace(), which str.strip() goes by: the separators 0x1C-0x1F count as
\* whitespace
IsSpace(ch) ==
    \/ ch \in 9..13
    \/ ch \in 28..32
    \/ ch \in {133, 160, 5760, 8232, 8233, 8239, 8287, 12288}
    \/ ch \in 8192..8202

\* str.isdigit(): the ASCII digits, and digits of other scripts and
\* superscript digits as well
IsDigit(ch) ==
    \/ ch \in 48..57
    \/ ch \in {178, 179, 185}
    \/ ch \in 1632..1641

RECURSIVE LStrip(_)
LStrip(s) == IF s # <<>> /\ IsSpace(Head(s)) THEN LStrip(Tail(s)) ELSE s

RECURSIVE RStrip(_)
RStrip(s) ==
    IF s # <<>> /\ IsSpace(s[Len(s)]) THEN RStrip(SubSeq(s, 1, Len(s) - 1)) ELSE s

\* str.strip()
Strip(s) == RStrip(LStrip(s))

\* AI_SERIAL, AI_KEYS, AI_CRYPTO (lines 8-10)
AI_SERIAL == <<50, 49>>
AI_91 == <<57, 49>>
AI_93 == <<57, 51>>
AI_CRYPTO == <<57, 50>>
AI_GTIN == <<48, 49>>
\* the letters "GS"
LettersGS == <<71, 83>>

\* _LEADING_PREFIXES (line 14): "]d2" and "<FNC1>"
PrefixD2 == <<93, 100, 50>>
PrefixFNC1 == <<60, 70, 78, 67, 49, 62>>

\* one turn of the loop of lines 43-55
StripPass(s) ==
    LET c1 == IF StartsWith(s, PrefixD2) THEN From(s, 3) ELSE s
        c2 == IF StartsWith(c1, PrefixFNC1) THEN From(c1, 6) ELSE c1
        c3 == IF c2 # <<>> /\ c2[1] = 232 THEN From(c2, 1) ELSE c2
    IN  IF StartsWith(c3, <<GS>>) THEN From(c3, 1) ELSE c3

RECURSIVE StripPrefixes(_)
\* lines 42-55: the loop runs while a turn has removed something and the
\* string is not empty
StripPrefixes(s) ==
    IF s = <<>> THEN s
    ELSE IF StripPass(s) = s THEN s
    ELSE StripPrefixes(StripPass(s))

\* (?i): the ASCII capital letters match their small letters
Lower(ch) == IF ch \in 65..90 THEN ch + 32 ELSE ch

\* the alternatives of _VISIBLE_GS_RE (lines 11-13), in small letters:
\* <gs>  [gs]  {gs}  U+241D  \x1d  \u001d  ^]
VisibleTokens ==
    << <<60, 103, 115, 62>>, <<91, 103, 115, 93>>, <<123, 103, 115, 125>>,
       <<9245>>, <<92, 120, 49, 100>>, <<92, 117, 48, 48, 49, 100>>, <<94, 93>> >>

\* the length of the visible token s begins with, 0 when it begins with none
VisibleTokenAt(s) ==
    LET low == [i \in 1..Len(s) |-> Lower(s[i])]
        hits == {k \in 1..Len(VisibleTokens) : StartsWith(low, VisibleTokens[k])}
    IN  IF hits = {} THEN 0
        ELSE Len(VisibleTokens[CHOOSE k \in hits : \A j \in hits : k <= j])

\* line 58 left out: the visible tokens stay as they are
SubVisibleGSNone(s) == s

RECURSIVE SubVisibleGS(_)
\* line 58: _VISIBLE_GS_RE.sub(GS, code)
SubVisibleGS(s) ==
    IF s = <<>> THEN <<>>
    ELSE IF VisibleTokenAt(s) > 0
    THEN <<GS>> \o SubVisibleGS(From(s, VisibleTokenAt(s)))
    ELSE <<Head(s)>> \o SubVisibleGS(Tail(s))

\* line 64: start = 18
RepairStart == 18

RECURSIVE RepairMarker(_, _, _)
\* lines 65-70 for one marker "GS" + ai, searching from start
RepairMarker(s, ai, start) ==
    LET idx == Find(s, LettersGS \o ai, start)
    IN  IF idx = 0 - 1 THEN s
        ELSE RepairMarker(Slice(s, 0, idx) \o <<GS>> \o From(s, idx + 2), ai, idx + 1)

\* normalize_gs1_raw with the repair searching from the start of the code
NormalizeGs1RawRepairAll(raw) ==
    LET c0 == SubVisibleGS(StripPrefixes(Strip(raw)))
        c1 == RepairMarker(c0, AI_91, 0)
        c2 == RepairMarker(c1, AI_CRYPTO, 0)
    IN  RepairMarker(c2, AI_93, 0)

\* normalize_gs1_raw
NormalizeGs1Raw(raw) ==
    LET c0 == SubVisibleGS(StripPrefixes(Strip(raw)))
        c1 == RepairMarker(c0, AI_91, RepairStart)
        c2 == RepairMarker(c1, AI_CRYPTO, RepairStart)
    IN  RepairMarker(c2, AI_93, RepairStart)

\* HonestMarkCode (lines 18-29)
HonestMarkCode(raw, gtin, serial, key, crypto) ==
    [raw |-> raw, gtin |-> gtin, serial |-> serial, verification_key |-> key,
     crypto |-> crypto]

\* bool(value) telling only None from a string
TruthyNotNone(value) == value # None

\* bool(value) of a field that is None or a string
Truthy(value) == value # None /\ value # <<>>

\* HonestMarkCode.is_valid (lines 31-34)
IsValid(m) == Truthy(m.gtin) /\ Truthy(m.serial)

\* the positions s.find(x) that are not -1 and are <= 20 (lines 109-117)
SerialLimit == 20
NearPositions(s, subs) ==
    {p \in {Find(s, sub, 0) : sub \in subs} : p # 0 - 1 /\ p <= SerialLimit}

SetMin(S) == CHOOSE x \in S : \A y \in S : x <= y

\* lines 103-132: the serial and what follows it
ParseSerial(code_rest) ==
    IF ~StartsWith(code_rest, AI_SERIAL)
    THEN [serial |-> None, rest |-> code_rest]
    ELSE LET serial_data == From(code_rest, 2)
             gs_pos == Find(serial_data, <<GS>>, 0)
             ai_positions == NearPositions(serial_data, {AI_91, AI_93, AI_CRYPTO})
             plain_gs_positions ==
                 NearPositions(serial_data,
                               {LettersGS \o AI_91, LettersGS \o AI_93,
                                LettersGS \o AI_CRYPTO})
         IN  IF gs_pos # 0 - 1
             THEN [serial |-> Slice(serial_data, 0, gs_pos),
                   rest |-> From(serial_data, gs_pos + 1)]
             ELSE IF plain_gs_positions # {}
             THEN [serial |-> Slice(serial_data, 0, SetMin(plain_gs_positions)),
                   rest |-> From(serial_data, SetMin(plain_gs_positions) + 2)]
             ELSE IF ai_positions # {}
             THEN [serial |-> Slice(serial_data, 0, SetMin(ai_positions)),
                   rest |-> From(serial_data, SetMin(ai_positions))]
             ELSE [serial |-> Slice(serial_data, 0, SerialLimit),
                   rest |-> From(serial_data, SerialLimit)]

\* lines 134-147: the verification key and what follows it
ParseKey(code_rest) ==
    LET found == {p \in {Find(code_rest, AI_91, 0), Find(code_rest, AI_93, 0)} :
                     p # 0 - 1}
    IN  IF found = {} THEN [key |-> None, rest |-> code_rest]
        ELSE LET key_pos == SetMin(found)
                 key == Slice(code_rest, key_pos + 2, key_pos + 6)
             IN  [key |-> IF Len(key) = 4 THEN key ELSE None,
                  rest |-> From(code_rest, key_pos + 6)]

\* lines 149-157: the crypto tail
ParseCrypto(code_rest) ==
    LET r1 == IF StartsWith(code_rest, LettersGS) THEN From(code_rest, 2) ELSE code_rest
        r2 == IF StartsWith(r1, <<GS>>) THEN From(r1, 1) ELSE r1
        idx == Find(r2, AI_CRYPTO, 0)
    IN  IF idx = 0 - 1 THEN None ELSE From(r2, idx + 2)

\* the GTIN test of line 95
GtinAccepted(gtin) == Len(gtin) = 14 /\ \A i \in 1..Len(gtin) : IsDigit(gtin[i])

\* parse_honest_mark
ParseHonestMark(raw) ==
    LET c == NormalizeGs1Raw(raw)
        idx == Find(c, AI_GTIN, 0)
        gtin == Slice(c, idx + 2, idx + 16)
    IN  IF idx = 0 - 1 THEN HonestMarkCode(c, None, None, None, None)
        ELSE IF ~GtinAccepted(gtin) THEN HonestMarkCode(c, None, None, None, None)
        ELSE LET ser == ParseSerial(From(c, idx + 16))
                 key == ParseKey(ser.rest)
             IN  HonestMarkCode(c, gtin, ser.serial, key.key, ParseCrypto(key.rest))

(***************************************************************************)
(* exporter.py: the sink and the progress sidecar                          *)
(***************************************************************************)
HexDigit(n) == IF n < 10 THEN 48 + n ELSE 87 + n

\* the pattern of the filter matching every C0 control character
IsAnyControlChar(ch) == ch \in 0..31

\* _ILLEGAL_CONTROL_CHARS_RE = [\x00-\x08\x0B-\x0C\x0E-\x1F]
IsIllegalControlChar(ch) ==
    \/ ch \in 0..8
    \/ ch \in 11..12
    \/ ch \in 14..31

\* _replace dropping the character instead of escaping it
SanitizeReplaceDrop(ch) == <<>>

\* _sanitize_excel_string._replace
SanitizeReplace(ch) ==
    IF ch = GS
    THEN <<60, 71, 83, 62>>
    ELSE <<92, 120, HexDigit(ch \div 16), HexDigit(ch % 16)>>

\* _sanitize_excel_string
SanitizeExcelString(value) ==
    FlatMap([i \in 1..Len(value) |->
                IF IsIllegalControlChar(value[i])
                THEN SanitizeReplace(value[i])
                ELSE <<value[i]>>], 1)

\* _is_ok_status recognising only the printed form of the enum member
IsOkStatusPrintedOnly(status) == status = "Status.OK"

\* _is_ok_status
IsOkStatus(status) == status = Status_OK

RECURSIVE ResultsToCodes(_)
\* _results_to_codes; each row keeps the page it came from next to its text
ResultsToCodes(rs) ==
    IF rs = <<>> THEN <<>>
    ELSE LET r == Head(rs)
         IN  IF ~IsOkStatus(r.status) THEN ResultsToCodes(Tail(rs))
             ELSE IF r.datamatrix_raw = None \/ r.datamatrix_raw = <<>>
             THEN ResultsToCodes(Tail(rs))
             ELSE <<[text |-> SanitizeExcelString(r.datamatrix_raw),
                     src |-> <<r.filename, r.page>>]>>
                  \o ResultsToCodes(Tail(rs))

\* _results_to_done_pages writing each entry twice
ResultsToDonePagesTwice(rs) ==
    FlatMap([i \in 1..Len(rs) |->
                LET l == [header |-> FALSE, filename |-> rs[i].filename,
                          page |-> rs[i].page]
                IN  <<l, l>>], 1)

\* _results_to_done_pages recording only the pages that gave a code
ResultsToDonePagesOkOnly(rs) ==
    LET ok == SelectSeq(rs, LAMBDA r : r.status = Status_OK)
    IN  [i \in 1..Len(ok) |->
            [header |-> FALSE, filename |-> ok[i].filename, page |-> ok[i].page]]

RECURSIVE ResultsToDonePages(_)
\* _results_to_done_pages
ResultsToDonePages(rs) ==
    IF rs = <<>> THEN <<>>
    ELSE LET r == Head(rs)
         IN  IF r.page = NoPage THEN ResultsToDonePages(Tail(rs))
             ELSE <<[header |-> FALSE, filename |-> r.filename, page |-> r.page]>>
                  \o ResultsToDonePages(Tail(rs))

HeaderLine == [header |-> TRUE, filename |-> "filename", page |-> 0]

\* _append_progress: the sidecar after the call
AppendProgress(rs, prog) ==
    LET done == ResultsToDonePages(rs)
    IN  IF done = <<>> THEN prog
        ELSE IF ~prog.exists THEN FileOf(<<HeaderLine>> \o done)
        ELSE FileOf(prog.rows \o done)

\* _read_existing_codes: the rows of a single-column workbook (lines 90-97),
\* the "DataMatrix (raw)" column of an old-format table (lines 103-105), and
\* an empty frame when both reads raise (lines 108-109)
ReadExistingCodes(out) ==
    IF out.format = "damaged" THEN <<>> ELSE out.rows

\* append_to_excel after _append_progress (lines 148-160): the output file
\* after the rewrite
WriteCodes(rs, out) ==
    LET codes == ResultsToCodes(rs)
    IN  IF codes = <<>> THEN out
        ELSE IF out.exists THEN FileOf(ReadExistingCodes(out) \o codes)
        ELSE FileOf(codes)

\* load_progress: pandas takes the first line of the sidecar for the column
\* names; a sidecar without the header line, an empty one, or one with a
\* second header line makes the read raise, and the result is the empty set
\* (lines 175-183).  Without a sidecar the pairs are read from an output
\* workbook that has the columns "Файл" and "Страница" (lines 185-198).
LoadProgress(prog, out) ==
    IF prog.exists
    THEN IF prog.rows = <<>> THEN {}
         ELSE IF ~prog.rows[1].header THEN {}
         ELSE IF \E i \in 2..Len(prog.rows) : prog.rows[i].header THEN {}
         ELSE {<<prog.rows[i].filename, prog.rows[i].page>> : i \in 2..Len(prog.rows)}
    ELSE IF ~out.exists THEN {}
    ELSE IF out.format = "legacy" THEN {out.rows[i].src : i \in 1..Len(out.rows)}
    ELSE {}

(***************************************************************************)
(* processor.py: run(), enumeration (lines 131-170)                        *)
(***************************************************************************)
Min(a, b) == IF a < b THEN a ELSE b

\* AlreadyDone with the 0-based page number looked up in done_pages
AlreadyDoneZeroBased(f, p, done) == <<f, p>> \in done

\* AlreadyDone skipping every page of a file that has any page in done_pages
AlreadyDoneWholeFile(f, p, done) == \E d \in done : d[1] = f

\* line 157: the page is skipped when (name, display_page) is in done_pages
AlreadyDone(f, p, done) == <<f, p + 1>> \in done

RECURSIVE FilePages(_, _, _)
\* lines 155-159 for one file: the tasks (pdf_path, p) for p = from..total-1
FilePages(f, from, done) ==
    IF from >= pageCount[f] THEN <<>>
    ELSE (IF AlreadyDone(f, from, done) THEN <<>> ELSE <<<<f, from>>>>)
         \o FilePages(f, from + 1, done)

\* the enumeration given up at the first file whose page count cannot be read
BuildTaskQueueStopAtError(i, done) ==
    LET ok == {j \in i..Len(Files) : \A k \in i..j : pageCount[Files[k]] >= 0}
    IN  FlatMap([j \in 1..Len(Files) |->
                    IF j \in ok THEN FilePages(Files[j], 0, done) ELSE <<>>], 1)

RECURSIVE BuildTaskQueue(_, _)
\* lines 144-161: the task queue over the files i..Len(Files)
BuildTaskQueue(i, done) ==
    IF i > Len(Files) THEN <<>>
    ELSE (IF pageCount[Files[i]] < 0 THEN <<>> ELSE FilePages(Files[i], 0, done))
         \o BuildTaskQueue(i + 1, done)

\* a limit applied to each file on its own: the first `limit` pages of a file
ApplyLimitPerFile(queue, limit) ==
    IF limit = NoLimit THEN queue ELSE SelectSeq(queue, LAMBDA t : t[2] < limit)

\* lines 164-165: task_queue[:page_limit]
ApplyLimit(queue, limit) ==
    IF limit = NoLimit THEN queue ELSE SubSeq(queue, 1, Min(limit, Len(queue)))

\* line 166
PageKeys(queue) == [i \in 1..Len(queue) |-> <<queue[i][1], queue[i][2] + 1>>]

RECURSIVE SumPages(_)
SumPages(i) ==
    IF i > Len(Files) THEN 0
    ELSE (IF pageCount[Files[i]] < 0 THEN 0 ELSE pageCount[Files[i]]) + SumPages(i + 1)

\* the files whose page count cannot be read (lines 148-151), in file order
ErrorFiles == SelectSeq(Files, LAMBDA f : pageCount[f] < 0)

\* the counters of lines 210-213 / 279-282 after one result
Tally(stats, r) ==
    IF r.status = Status_OK
    THEN [stats EXCEPT !.total_codes = @ + 1]
    ELSE IF r.status = Status_NOT_FOUND
    THEN [stats EXCEPT !.pages_empty = @ + 1]
    ELSE stats

RECURSIVE TallyAll(_, _)
\* the loop of lines 278-282
TallyAll(stats, rs) ==
    IF rs = <<>> THEN stats ELSE TallyAll(Tally(stats, Head(rs)), Tail(rs))

\* a submitted future runs when fewer than `workers` unfinished futures were
\* submitted before it: the pool starts tasks in submission order, one per worker
Running(i) ==
    /\ fut[i] = "pending"
    /\ Cardinality({j \in 1..(i - 1) : fut[j] = "pending"}) < workers

\* DrainKey taking whichever staged page is last in task order, not the one
\* at the cursor
DrainKeyAnyStaged(ready, keys, idx) ==
    IF DOMAIN ready = {} THEN keys[idx + 1]
    ELSE keys[CHOOSE i \in 1..Len(keys) :
                /\ keys[i] \in DOMAIN ready
                /\ \A j \in (i + 1)..Len(keys) : keys[j] \notin DOMAIN ready]

\* line 236: page_key = ordered_page_keys[next_page_idx]
DrainKey(ready, keys, idx) == keys[idx + 1]

\* DrainReady draining at the start of the task list only
DrainReadyFirstPageOnly(ready, keys, idx) ==
    idx = 0 /\ idx < Len(keys) /\ DrainKey(ready, keys, idx) \in DOMAIN ready

\* DrainReady with the loop bound one short: the last page is never drained
DrainReadyOneShort(ready, keys, idx) ==
    idx + 1 < Len(keys) /\ DrainKey(ready, keys, idx) \in DOMAIN ready

\* lines 235-239: the loop goes on while the page at the cursor is staged
DrainReady(ready, keys, idx) ==
    idx < Len(keys) /\ DrainKey(ready, keys, idx) \in DOMAIN ready

(***************************************************************************)
(* Initial state: an input directory and an output path never written.     *)
(***************************************************************************)
PageSet(pcount) ==
    {t \in Range(Files) \X (0..(MaxPages - 1)) : t[2] < pcount[t[1]]}

Init ==
    /\ pageCount \in [Range(Files) -> (0 - 1)..MaxPages]
    /\ Cardinality(PageSet(pageCount)) <= MaxTotalPages
    /\ pageKind \in [PageSet(pageCount) -> PageKinds]
    /\ outFile = MissingFile
    /\ progFile = MissingFile
    /\ workers = 1 /\ resume = FALSE /\ page_limit = NoLimit
    /\ pc = "idle"
    /\ session = SessionStats(0)
    /\ done_pages = {} /\ task_queue = <<>> /\ ordered_page_keys = <<>>
    /\ buffer = <<>> /\ interrupted = FALSE
    /\ ready_pages = <<>> /\ next_page_idx = 0
    /\ fut = <<>> /\ yielded = {} /\ cur = 0 /\ results = <<>> /\ ridx = 0
    /\ ret = "none"
    /\ sessNo = 0 /\ interrupts = 0 /\ committed = <<>>
    /\ outLen0 = 0 /\ progLen0 = 0 /\ doneAtInterrupt = {}
    /\ interruptAt = "none" /\ dispatched = {} /\ prevKeys = {}
    /\ raw_code = <<>> /\ code = <<>> /\ code2 = <<>>
    /\ mark = HonestMarkCode(<<>>, None, None, None, None)
    /\ pstep = "off"
    /\ appends = 0 /\ appended = {}
    /\ roiSet = FALSE /\ renders = <<>> /\ decodes = <<>> /\ image = "none"
    /\ hasCodes = FALSE /\ wpc = "off" /\ trace = <<>> /\ wresult = "none"
    /\ parts = <<>> /\ encoded = <<>>

(***************************************************************************)
(* run(): entry and enumeration                                            *)
(***************************************************************************)
\* run() is called (lines 108-132); the locals of the previous call are gone
Call(w, r, l) ==
    /\ pc \in {"idle", "returned", "raised"}
    /\ workers' = w /\ resume' = r /\ page_limit' = l
    /\ pc' = "enumerate"
    /\ session' = SessionStats(Len(Files))
    /\ done_pages' = {} /\ task_queue' = <<>> /\ ordered_page_keys' = <<>>
    /\ buffer' = <<>> /\ interrupted' = FALSE
    /\ ready_pages' = <<>> /\ next_page_idx' = 0
    /\ fut' = <<>> /\ yielded' = {} /\ cur' = 0 /\ results' = <<>> /\ ridx' = 0
    /\ ret' = "none"
    /\ sessNo' = sessNo + 1
    /\ committed' = <<>>
    /\ outLen0' = Len(outFile.rows) /\ progLen0' = Len(progFile.rows)
    /\ doneAtInterrupt' = {} /\ interruptAt' = "none" /\ dispatched' = {}
    /\ prevKeys' = Range(ordered_page_keys)
    /\ UNCHANGED <<inputVars, fileVars, interrupts>>

\* run() is called at most MaxSessions times
Run(w, r, l) == sessNo < MaxSessions /\ Call(w, r, l)

\* lines 137-170
Enumerate ==
    /\ pc = "enumerate"
    /\ LET done == IF resume THEN LoadProgress(progFile, outFile) ELSE {}
           queue == ApplyLimit(BuildTaskQueue(1, done), page_limit)
       IN  /\ done_pages' = done
           /\ task_queue' = queue
           /\ ordered_page_keys' = PageKeys(queue)
           /\ session' = [session EXCEPT
                            !.resumed_from = IF resume THEN Cardinality(done) ELSE 0,
                            !.files_with_errors = Len(ErrorFiles),
                            !.errors = ErrorFiles,
                            !.total_pages = SumPages(1),
                            !.processed_files = Len(Files) - Len(ErrorFiles)]
           /\ pc' = IF Len(queue) = 0 THEN "returned"
                    ELSE IF workers <= 1 THEN "s_next" ELSE "m_submit"
           /\ cur' = 1
    /\ UNCHANGED <<inputVars, fileVars, argVars, buffer, interrupted, ready_pages,
                   next_page_idx, fut, yielded, results, ridx, ret, histVars,
                   committed, doneAtInterrupt, interruptAt, dispatched>>

(***************************************************************************)
(* _flush_buffer (lines 176-181) and the sink append it calls              *)
(***************************************************************************)
\* the batch saved only once the buffer holds more than SAVE_EVERY entries
AfterCommitAbove(buf, next) == IF Len(buf) > SAVE_EVERY THEN "f_progress" ELSE next

\* where the main thread goes when a batch may have to be saved (lines 219, 242)
AfterCommit(buf, next) == IF Len(buf) >= SAVE_EVERY THEN "f_progress" ELSE next

\* append_to_excel, line 146: the progress entries of the batch are appended
FlushProgress ==
    /\ pc = "f_progress"
    /\ progFile' = AppendProgress(buffer, progFile)
    /\ pc' = "f_codes"
    /\ UNCHANGED <<inputVars, outFile, argVars, session, done_pages, task_queue,
                   ordered_page_keys, buffer, interrupted, ready_pages,
                   next_page_idx, fut, yielded, cur, results, ridx, ret, histVars,
                   committed, doneAtInterrupt, interruptAt, dispatched>>

\* append_to_excel, lines 148-160: the codes of the batch are written
FlushCodes ==
    /\ pc = "f_codes"
    /\ outFile' = WriteCodes(buffer, outFile)
    /\ pc' = "f_clear"
    /\ UNCHANGED <<inputVars, progFile, argVars, session, done_pages, task_queue,
                   ordered_page_keys, buffer, interrupted, ready_pages,
                   next_page_idx, fut, yielded, cur, results, ridx, ret, histVars,
                   committed, doneAtInterrupt, interruptAt, dispatched>>

\* line 181: buffer = []
FlushClear ==
    /\ pc = "f_clear"
    /\ buffer' = <<>>
    /\ pc' = ret
    /\ ret' = "none"
    /\ UNCHANGED <<inputVars, fileVars, argVars, session, done_pages, task_queue,
                   ordered_page_keys, interrupted, ready_pages,
                   next_page_idx, fut, yielded, cur, results, ridx, histVars,
                   committed, doneAtInterrupt, interruptAt, dispatched>>

\* lines 297-301: the final flush has nothing (left) to write; run() returns
Return ==
    /\ pc = "final"
    /\ buffer = <<>>
    /\ session' = [session EXCEPT !.interrupted = interrupted]
    /\ pc' = "returned"
    /\ UNCHANGED <<inputVars, fileVars, argVars, done_pages, task_queue,
                   ordered_page_keys, buffer, interrupted, ready_pages,
                   next_page_idx, fut, yielded, cur, results, ridx, ret, histVars,
                   committed, doneAtInterrupt, interruptAt, dispatched>>

\* line 298: the final flush finds a non-empty buffer
FinalFlush ==
    /\ pc = "final"
    /\ buffer # <<>>
    /\ pc' = "f_progress"
    /\ ret' = "final"
    /\ UNCHANGED <<inputVars, fileVars, argVars, session, done_pages, task_queue,
                   ordered_page_keys, buffer, interrupted, ready_pages,
                   next_page_idx, fut, yielded, cur, results, ridx, histVars,
                   committed, doneAtInterrupt, interruptAt, dispatched>>

(***************************************************************************)
(* Single-worker mode (lines 200-223)                                      *)
(***************************************************************************)
\* lines 203-206: the next task is decoded inline, or the loop is over
SingleNext ==
    /\ pc = "s_next"
    /\ IF cur > Len(task_queue)
       THEN /\ pc' = "final"
            /\ UNCHANGED <<results, ridx, dispatched>>
       ELSE /\ results' = DecodeSinglePage(task_queue[cur][1], task_queue[cur][2])
            /\ ridx' = 1
            /\ dispatched' = dispatched \cup {ordered_page_keys[cur]}
            /\ pc' = "s_append"
    /\ UNCHANGED <<inputVars, fileVars, argVars, session, done_pages, task_queue,
                   ordered_page_keys, buffer, interrupted, ready_pages,
                   next_page_idx, fut, yielded, cur, ret, histVars,
                   committed, doneAtInterrupt, interruptAt>>

\* lines 208-213: one result goes to the buffer and is counted
SingleAppend ==
    /\ pc = "s_append"
    /\ ridx <= Len(results)
    /\ buffer' = Append(buffer, results[ridx])
    /\ session' = Tally(session, results[ridx])
    /\ ridx' = ridx + 1
    /\ committed' = IF ridx = 1
                    THEN Append(committed, <<results[1].filename, results[1].page>>)
                    ELSE committed
    /\ UNCHANGED <<inputVars, fileVars, argVars, pc, done_pages, task_queue,
                   ordered_page_keys, interrupted, ready_pages,
                   next_page_idx, fut, yielded, cur, results, ret, histVars,
                   doneAtInterrupt, interruptAt, dispatched>>

\* lines 215-220: the page is counted; a full buffer is flushed
SingleCount ==
    /\ pc = "s_append"
    /\ ridx > Len(results)
    /\ session' = [session EXCEPT !.pages_processed = @ + 1]
    /\ cur' = cur + 1
    /\ pc' = AfterCommit(buffer, "s_next")
    /\ ret' = IF Len(buffer) >= SAVE_EVERY THEN "s_next" ELSE ret
    /\ UNCHANGED <<inputVars, fileVars, argVars, done_pages, task_queue,
                   ordered_page_keys, buffer, interrupted, ready_pages,
                   next_page_idx, fut, yielded, results, ridx, histVars,
                   committed, doneAtInterrupt, interruptAt, dispatched>>

(***************************************************************************)
(* Multi-worker mode (lines 225-295)                                       *)
(***************************************************************************)
\* lines 228-260: every task is submitted to the pool
Submit ==
    /\ pc = "m_submit"
    /\ fut' = [i \in 1..Len(task_queue) |-> "pending"]
    /\ yielded' = {}
    /\ ready_pages' = <<>>
    /\ next_page_idx' = 0
    /\ pc' = "m_wait"
    /\ UNCHANGED <<inputVars, fileVars, argVars, session, done_pages, task_queue,
                   ordered_page_keys, buffer, interrupted, cur, results, ridx,
                   ret, histVars, committed, doneAtInterrupt, interruptAt,
                   dispatched>>

\* a worker process returns from _decode_single_page
FinishTask(i) ==
    /\ i \in DOMAIN fut
    /\ Running(i)
    /\ pc \notin {"idle", "returned", "raised", "enumerate", "m_submit"}
    /\ fut' = [fut EXCEPT ![i] = "finished"]
    /\ dispatched' = dispatched \cup {ordered_page_keys[i]}
    /\ UNCHANGED <<inputVars, fileVars, argVars, pc, session, done_pages,
                   task_queue, ordered_page_keys, buffer, interrupted,
                   ready_pages, next_page_idx, yielded, cur, results, ridx, ret,
                   histVars, committed, doneAtInterrupt, interruptAt>>

\* lines 263-282: as_completed hands out a finished future; its results are
\* counted
AsCompleted(i) ==
    /\ pc = "m_wait"
    /\ i \in DOMAIN fut
    /\ fut[i] = "finished"
    /\ i \notin yielded
    /\ yielded' = yielded \cup {i}
    /\ cur' = i
    /\ results' = DecodeSinglePage(task_queue[i][1], task_queue[i][2])
    /\ session' = TallyAll(session, DecodeSinglePage(task_queue[i][1], task_queue[i][2]))
    /\ pc' = "m_stage"
    /\ UNCHANGED <<inputVars, fileVars, argVars, done_pages, task_queue,
                   ordered_page_keys, buffer, interrupted, ready_pages,
                   next_page_idx, fut, ridx, ret, histVars, committed,
                   doneAtInterrupt, interruptAt, dispatched>>

\* line 263: every future has been handed out, the loop ends
AllCompleted ==
    /\ pc = "m_wait"
    /\ yielded = DOMAIN fut
    /\ pc' = "m_exit"
    /\ UNCHANGED <<inputVars, fileVars, argVars, session, done_pages, task_queue,
                   ordered_page_keys, buffer, interrupted, ready_pages,
                   next_page_idx, fut, yielded, cur, results, ridx, ret,
                   histVars, committed, doneAtInterrupt, interruptAt, dispatched>>

\* line 284: ready_pages[page_key] = results
Stage ==
    /\ pc = "m_stage"
    /\ ready_pages' = (ordered_page_keys[cur] :> results) @@ ready_pages
    /\ pc' = "m_drain"
    /\ UNCHANGED <<inputVars, fileVars, argVars, session, done_pages, task_queue,
                   ordered_page_keys, buffer, interrupted, next_page_idx, fut,
                   yielded, cur, results, ridx, ret, histVars, committed,
                   doneAtInterrupt, interruptAt, dispatched>>

\* lines 235-239: the page at the cursor is popped from the staging map
DrainPop ==
    /\ pc = "m_drain"
    /\ DrainReady(ready_pages, ordered_page_keys, next_page_idx)
    /\ LET page_key == DrainKey(ready_pages, ordered_page_keys, next_page_idx)
       IN  /\ results' = ready_pages[page_key]
           /\ ready_pages' = [k \in DOMAIN ready_pages \ {page_key} |-> ready_pages[k]]
    /\ pc' = "m_extend"
    /\ UNCHANGED <<inputVars, fileVars, argVars, session, done_pages, task_queue,
                   ordered_page_keys, buffer, interrupted, next_page_idx, fut,
                   yielded, cur, ridx, ret, histVars, committed,
                   doneAtInterrupt, interruptAt, dispatched>>

\* lines 240-243: the popped page is committed to the buffer, the cursor
\* advances, a full buffer is flushed
DrainExtend ==
    /\ pc = "m_extend"
    /\ buffer' = buffer \o results
    /\ committed' = Append(committed, <<results[1].filename, results[1].page>>)
    /\ next_page_idx' = next_page_idx + 1
    /\ pc' = AfterCommit(buffer \o results, "m_drain")
    /\ ret' = IF Len(buffer \o results) >= SAVE_EVERY THEN "m_drain" ELSE ret
    /\ UNCHANGED <<inputVars, fileVars, argVars, session, done_pages, task_queue,
                   ordered_page_keys, interrupted, ready_pages, fut, yielded,
                   cur, results, ridx, histVars, doneAtInterrupt, interruptAt,
                   dispatched>>

\* lines 238-239 and 287: nothing to drain at the cursor; the completed task
\* is counted
DrainBreak ==
    /\ pc = "m_drain"
    /\ ~DrainReady(ready_pages, ordered_page_keys, next_page_idx)
    /\ session' = [session EXCEPT !.pages_processed = @ + 1]
    /\ pc' = "m_wait"
    /\ UNCHANGED <<inputVars, fileVars, argVars, done_pages, task_queue,
                   ordered_page_keys, buffer, interrupted, ready_pages,
                   next_page_idx, fut, yielded, cur, results, ridx, ret,
                   histVars, committed, doneAtInterrupt, interruptAt, dispatched>>

\* lines 250 and 294-295: leaving the with-block waits for the running tasks
ExecutorExit ==
    /\ pc = "m_exit"
    /\ \A i \in DOMAIN fut : fut[i] # "pending"
    /\ pc' = "final"
    /\ UNCHANGED <<inputVars, fileVars, argVars, session, done_pages, task_queue,
                   ordered_page_keys, buffer, interrupted, ready_pages,
                   next_page_idx, fut, yielded, cur, results, ridx, ret,
                   histVars, committed, doneAtInterrupt, interruptAt, dispatched>>

(***************************************************************************)
(* Operator interrupt: KeyboardInterrupt raised in the main thread         *)
(***************************************************************************)
\* the flush was entered from the dispatch loop, not from line 298
InDispatchFlush == pc \in {"f_progress", "f_codes", "f_clear"} /\ ret # "final"

\* positions inside "try ... except KeyboardInterrupt" of lines 202-223
InSingleTry == workers <= 1 /\ (pc \in {"s_next", "s_append"} \/ InDispatchFlush)

\* positions inside "try ... except KeyboardInterrupt" of lines 262-292
InMultiTry ==
    workers > 1 /\ (pc \in {"m_wait", "m_stage", "m_drain", "m_extend"} \/ InDispatchFlush)

\* positions of run() that no handler covers
Uncovered ==
    \/ pc \in {"enumerate", "m_submit", "m_exit", "final"}
    \/ (pc \in {"f_progress", "f_codes", "f_clear"} /\ ret = "final")

\* lines 222-223
InterruptSingle ==
    /\ InSingleTry
    /\ interrupts < MaxInterrupts
    /\ interrupts' = interrupts + 1
    /\ interruptAt' = pc
    /\ interrupted' = TRUE
    /\ pc' = "final"
    /\ UNCHANGED <<inputVars, fileVars, argVars, session, done_pages, task_queue,
                   ordered_page_keys, buffer, ready_pages, next_page_idx, fut,
                   yielded, cur, results, ridx, ret, sessNo, outLen0, progLen0,
                   prevKeys, committed, doneAtInterrupt, dispatched>>

\* lines 290-292: interrupted = True, executor.shutdown(cancel_futures=True)
InterruptMulti ==
    /\ InMultiTry
    /\ interrupts < MaxInterrupts
    /\ interrupts' = interrupts + 1
    /\ interruptAt' = pc
    /\ interrupted' = TRUE
    /\ doneAtInterrupt' = {ordered_page_keys[i] : i \in {j \in DOMAIN fut : fut[j] = "finished"}}
    /\ fut' = [i \in DOMAIN fut |->
                 IF fut[i] = "pending" /\ ~Running(i) THEN "cancelled" ELSE fut[i]]
    /\ pc' = "m_exit"
    /\ UNCHANGED <<inputVars, fileVars, argVars, session, done_pages, task_queue,
                   ordered_page_keys, buffer, ready_pages, next_page_idx,
                   yielded, cur, results, ridx, ret, sessNo, outLen0, progLen0,
                   prevKeys, committed, dispatched>>

\* the interrupt arrives where run() has no handler: the exception leaves run()
InterruptUncovered ==
    /\ Uncovered
    /\ interrupts < MaxInterrupts
    /\ interrupts' = interrupts + 1
    /\ interruptAt' = IF ret = "final" THEN "final" ELSE pc
    /\ pc' = "raised"
    \* leaving the with-block on the way out waits for every submitted task
    /\ fut' = [i \in DOMAIN fut |-> IF fut[i] = "pending" THEN "finished" ELSE fut[i]]
    /\ dispatched' = IF pc = "m_submit" THEN Range(ordered_page_keys) ELSE dispatched
    /\ UNCHANGED <<inputVars, fileVars, argVars, session, done_pages, task_queue,
                   ordered_page_keys, buffer, interrupted, ready_pages,
                   next_page_idx, yielded, cur, results, ridx, ret, sessNo,
                   outLen0, progLen0, prevKeys, committed, doneAtInterrupt>>

LimitChoices == {NoLimit}

\* the first call starts from an output path never written and is a plain
\* run; every later call on the same output path is a resume run
ResumeChoices == IF sessNo = 0 THEN {FALSE} ELSE {TRUE}

Next ==
    \/ \E w \in 1..MaxWorkers, r \in ResumeChoices, l \in LimitChoices : Run(w, r, l)
    \/ Enumerate
    \/ SingleNext
    \/ SingleAppend
    \/ SingleCount
    \/ Submit
    \/ \E i \in 1..MaxTotalPages : FinishTask(i)
    \/ \E i \in 1..MaxTotalPages : AsCompleted(i)
    \/ AllCompleted
    \/ Stage
    \/ DrainPop
    \/ DrainExtend
    \/ DrainBreak
    \/ ExecutorExit
    \/ FlushProgress
    \/ FlushCodes
    \/ FlushClear
    \/ FinalFlush
    \/ Return
    \/ InterruptSingle
    \/ InterruptMulti
    \/ InterruptUncovered

Spec == Init /\ [][Next]_vars

(***************************************************************************)
(* Vocabulary of the properties                                            *)
(***************************************************************************)
IsPrefix(a, b) == Len(a) <= Len(b) /\ \A i \in 1..Len(a) : a[i] = b[i]

RowTexts(rows) == [i \in 1..Len(rows) |-> rows[i].text]

\* the (filename, page) pairs of a sequence of sidecar lines
ProgPairs(lines) ==
    {<<lines[i].filename, lines[i].page>> : i \in {j \in 1..Len(lines) : ~lines[j].header}}

\* what this call of run() has added to the two files so far
SessRows == SubSeq(outFile.rows, outLen0 + 1, Len(outFile.rows))
SessProgPairs == ProgPairs(SubSeq(progFile.rows, progLen0 + 1, Len(progFile.rows)))
\* the pairs the sidecar held when this call began
StartProgPairs == ProgPairs(SubSeq(progFile.rows, 1, progLen0))

\* position of a page key in the ordered task list of this call
KeyIndex(k) == CHOOSE i \in 1..Len(ordered_page_keys) : ordered_page_keys[i] = k

\* the outcomes the page worker produces for a task list, in task order
AllResults(queue) ==
    FlatMap([i \in 1..Len(queue) |-> DecodeSinglePage(queue[i][1], queue[i][2])], 1)

Found(rs) == SelectSeq(rs, LAMBDA r : r.status = Status_OK)

\* the outcomes of the page (f, display_page)
OutcomesOf(k) == DecodeSinglePage(k[1], k[2] - 1)

\* lines 137-170 have run in this call
Enumerated == pc # "enumerate" /\ interruptAt # "enumerate"

\* the session ran to its return with no operator interrupt
Uninterrupted == pc = "returned" /\ interruptAt = "none"

(***************************************************************************)
(* The parser applied to one payload: normalize_gs1_raw, normalize_gs1_raw *)
(* once more on its own result, and parse_honest_mark.                     *)
(***************************************************************************)
\* "0460123456789", the first 13 digits of a GTIN
Digits13 == <<48, 52, 54, 48, 49, 50, 51, 52, 53, 54, 55, 56, 57>>

\* what stands before the code: nothing, "]d2", "]d2 ", a blank, "<GS>"
PrefixChoices ==
    {<<>>, PrefixD2, PrefixD2 \o <<32>>, <<32>>, <<60, 71, 83, 62>>}

\* the 14 characters after AI 01: digits, digits and a superscript two,
\* digits and a letter
GtinChoices == {Digits13 \o <<48>>, Digits13 \o <<178>>, Digits13 \o <<65>>}

\* serials: none, "ABC", "A1B2", and 21 letters
SerialChoices ==
    {<<>>, <<65, 66, 67>>, <<65, 49, 66, 50>>, [i \in 1..21 |-> 65]}

\* separators: the byte 0x1D, "<GS>", the letters "GS", nothing
SepChoices == {<<GS>>, <<60, 71, 83, 62>>, LettersGS, <<>>}

\* what follows the serial: sep 91 XYZA sep 92 CC, sep 91 XY, nothing
TailChoices(sep) ==
    {sep \o AI_91 \o <<88, 89, 90, 65>> \o sep \o AI_CRYPTO \o <<67, 67>>,
     sep \o AI_91 \o <<88, 89>>,
     <<>>}

\* what stands after the code: nothing, a blank, "<gs>"
SuffixChoices == {<<>>, <<32>>, <<60, 103, 115, 62>>}

\* payloads without AI 01, with too few characters after it, without AI 21
OddPayloads ==
    {<<>>, <<88>>, AI_GTIN \o <<52, 54, 48>>,
     AI_GTIN \o Digits13 \o <<48>> \o AI_91 \o <<88, 89, 90, 65>>}

\* the letters GS before 91, 92, 93 inside the first 18 characters, at
\* offset 17, and at offset 18 and later:
\*   01GS91GS92GS93XXXXGS93GS91GS92,  010460123456789XYGS91GS92,
\*   010460123456789XGSGS91
MarkerPayloads ==
    {AI_GTIN \o LettersGS \o AI_91 \o LettersGS \o AI_CRYPTO \o LettersGS \o AI_93
        \o <<88, 88, 88, 88>> \o LettersGS \o AI_93 \o LettersGS \o AI_91
        \o LettersGS \o AI_CRYPTO,
     AI_GTIN \o Digits13 \o <<88, 89>> \o LettersGS \o AI_91 \o LettersGS \o AI_CRYPTO,
     AI_GTIN \o Digits13 \o <<88>> \o LettersGS \o LettersGS \o AI_91}

Payloads ==
    {p \o AI_GTIN \o g \o AI_SERIAL \o s \o t \o x :
        p \in PrefixChoices, g \in GtinChoices, s \in SerialChoices,
        t \in UNION {TailChoices(sep) : sep \in SepChoices}, x \in SuffixChoices}
    \cup OddPayloads \cup MarkerPayloads

NoMark == HonestMarkCode(<<>>, None, None, None, None)

\* no payload is being parsed
ParserIdle ==
    /\ raw_code = <<>> /\ code = <<>> /\ code2 = <<>> /\ mark = NoMark
    /\ pstep = "off"

\* the sink has not been called directly; no page is being decoded pass by
\* pass and no code is being encoded
SinkIdle ==
    /\ appends = 0 /\ appended = {}
    /\ roiSet = FALSE /\ renders = <<>> /\ decodes = <<>> /\ image = "none"
    /\ hasCodes = FALSE /\ wpc = "off" /\ trace = <<>> /\ wresult = "none"
    /\ parts = <<>> /\ encoded = <<>>

\* run() has never been called on an empty input directory
RunIdle ==
    /\ pageCount = [f \in Range(Files) |-> 0]
    /\ pageKind = <<>>
    /\ workers = 1 /\ resume = FALSE /\ page_limit = NoLimit
    /\ session = SessionStats(0)
    /\ done_pages = {} /\ task_queue = <<>> /\ ordered_page_keys = <<>>
    /\ buffer = <<>> /\ interrupted = FALSE
    /\ ready_pages = <<>> /\ next_page_idx = 0
    /\ fut = <<>> /\ yielded = {} /\ cur = 0 /\ results = <<>> /\ ridx = 0
    /\ ret = "none"
    /\ sessNo = 0 /\ interrupts = 0 /\ committed = <<>>
    /\ outLen0 = 0 /\ progLen0 = 0 /\ doneAtInterrupt = {}
    /\ interruptAt = "none" /\ dispatched = {} /\ prevKeys = {}

runVars == <<pageCount, pageKind, outFile, progFile, workers, resume, page_limit,
             pc, session, done_pages, task_queue, ordered_page_keys, buffer,
             interrupted, ready_pages, next_page_idx, fut, yielded, cur, results,
             ridx, ret, sessNo, interrupts, committed, outLen0, progLen0,
             doneAtInterrupt, interruptAt, dispatched, prevKeys>>

ParserInit ==
    /\ RunIdle /\ SinkIdle
    /\ outFile = MissingFile /\ progFile = MissingFile /\ pc = "idle"
    /\ raw_code \in Payloads
    /\ code = <<>> /\ code2 = <<>> /\ mark = NoMark
    /\ pstep = "input"

\* code = normalize_gs1_raw(raw_code)
NormalizeStep ==
    /\ pstep = "input"
    /\ code' = NormalizeGs1Raw(raw_code)
    /\ pstep' = "normalized"
    /\ UNCHANGED <<runVars, sinkVars, workerVars, encVars, raw_code, code2, mark>>

\* code2 = normalize_gs1_raw(code)
RenormalizeStep ==
    /\ pstep = "normalized"
    /\ code2' = NormalizeGs1Raw(code)
    /\ pstep' = "renormalized"
    /\ UNCHANGED <<runVars, sinkVars, workerVars, encVars, raw_code, code, mark>>

\* mark = parse_honest_mark(raw_code)
ParseStep ==
    /\ pstep = "renormalized"
    /\ mark' = ParseHonestMark(raw_code)
    /\ pstep' = "parsed"
    /\ UNCHANGED <<runVars, sinkVars, workerVars, encVars, raw_code, code, code2>>

ParserNext == NormalizeStep \/ RenormalizeStep \/ ParseStep

ParserSpec == ParserInit /\ [][ParserNext]_vars

(***************************************************************************)
(* The filter of the sink applied to one string.                           *)
(***************************************************************************)
\* characters the filter is tried on: C0 controls on both sides of every gap
\* of the pattern, the separator 0x1D, a blank, a letter, DEL
FilterAlphabet == {0, 8, 9, 10, 11, 12, 13, 14, 29, 31, 32, 65, 127}

FilterInputs ==
    {<<>>} \cup {<<a>> : a \in FilterAlphabet}
           \cup {<<a, b>> : a \in FilterAlphabet, b \in FilterAlphabet}

FilterInit ==
    /\ RunIdle /\ SinkIdle
    /\ outFile = MissingFile /\ progFile = MissingFile /\ pc = "idle"
    /\ raw_code \in FilterInputs
    /\ code = <<>> /\ code2 = <<>> /\ mark = NoMark
    /\ pstep = "input"

\* code = _sanitize_excel_string(raw_code)
SanitizeStep ==
    /\ pstep = "input"
    /\ code' = SanitizeExcelString(raw_code)
    /\ pstep' = "sanitized"
    /\ UNCHANGED <<runVars, sinkVars, workerVars, encVars, raw_code, code2, mark>>

FilterNext == SanitizeStep

FilterSpec == FilterInit /\ [][FilterNext]_vars

(***************************************************************************)
(* The sink called directly on an output path that may hold files already: *)
(* append_to_excel(results, output_path), then load_progress(output_path). *)
(***************************************************************************)
\* calls of append_to_excel
MaxAppends == 2

\* the line and the progress entry a finished earlier session left behind
OldRow == [text |-> CodeA("b.pdf", 1), src |-> <<"b.pdf", 1>>]
OldEntry == [header |-> FALSE, filename |-> "b.pdf", page |-> 1]

\* the output path holds nothing, a codes workbook, an old-format table, or a
\* file that cannot be read
OutFileChoices ==
    {MissingFile, FileOf(<<OldRow>>), LegacyFile(<<OldRow>>), DamagedFile(<<OldRow>>)}

\* the sidecar is missing, empty, or populated
ProgFileChoices == {MissingFile, FileOf(<<>>), FileOf(<<HeaderLine, OldEntry>>)}

SinkResults ==
    {ProcessingResult("a.pdf", p, CodeA("a.pdf", p), Status_OK) : p \in 1..2}
    \cup {ProcessingResult("a.pdf", p, None, Status_NOT_FOUND) : p \in 1..2}

\* the lists of results handed to the sink
SinkBatches ==
    {<<>>} \cup {<<a>> : a \in SinkResults}
           \cup {<<a, b>> : a \in SinkResults, b \in SinkResults}

SinkInit ==
    /\ RunIdle /\ SinkIdle /\ ParserIdle
    /\ outFile \in OutFileChoices
    /\ progFile \in ProgFileChoices
    /\ pc = "sink_idle"

\* append_to_excel(rs, output_path) is called (lines 132-145); with an empty
\* list it returns at once
SinkCall(rs) ==
    /\ pc = "sink_idle"
    /\ appends < MaxAppends
    /\ appends' = appends + 1
    /\ appended' = appended \cup ProgPairs(ResultsToDonePages(rs))
    /\ buffer' = rs
    /\ pc' = IF rs = <<>> THEN "sink_idle" ELSE "f_progress"
    /\ ret' = IF rs = <<>> THEN ret ELSE "sink_idle"
    /\ UNCHANGED <<pageCount, pageKind, parserVars, workerVars, encVars, fileVars, argVars,
                   session,
                   done_pages, task_queue, ordered_page_keys, interrupted,
                   ready_pages, next_page_idx, fut, yielded, cur, results, ridx,
                   histVars, committed, doneAtInterrupt, interruptAt, dispatched>>

SinkNext ==
    \/ \E rs \in SinkBatches : SinkCall(rs)
    \/ FlushProgress
    \/ FlushCodes
    \/ FlushClear

SinkSpec == SinkInit /\ [][SinkNext]_vars

(***************************************************************************)
(* C1  In multi-worker mode the page keys moved into the sink buffer are,  *)
(* at every moment and for every completion order, a prefix of the ordered *)
(* task list; as long as no interrupt has arrived the lines written to the *)
(* output come from committed pages and follow the task order.             *)
(***************************************************************************)
C1_CommitInTaskOrder ==
    workers > 1 =>
        /\ IsPrefix(committed, ordered_page_keys)
        /\ interruptAt = "none" =>
              /\ \A i \in 1..Len(SessRows) : SessRows[i].src \in Range(committed)
              /\ \A i \in 1..(Len(SessRows) - 1) :
                    KeyIndex(SessRows[i].src) <= KeyIndex(SessRows[i + 1].src)

\* a later page is staged while an earlier one is still missing, after a commit
C1_Witness ==
    /\ workers > 1
    /\ pc = "m_wait"
    /\ Len(committed) >= 1
    /\ \E k \in DOMAIN ready_pages : KeyIndex(k) > next_page_idx + 1

(***************************************************************************)
(* C2  An uninterrupted run, single-worker or multi-worker under any       *)
(* completion order, writes the lines the inline loop writes for the task  *)
(* list and ends with the inline loop's counters.                          *)
(***************************************************************************)
InlineLines(queue) ==
    LET found == SelectSeq(AllResults(queue),
                           LAMBDA r : r.status = Status_OK /\ r.datamatrix_raw # <<>>)
    IN  [i \in 1..Len(found) |-> SanitizeExcelString(found[i].datamatrix_raw)]

InlineCount(queue, status) ==
    Len(SelectSeq(AllResults(queue), LAMBDA r : r.status = status))

C2_MultiEqualsInline ==
    Uninterrupted =>
        /\ RowTexts(SessRows) = InlineLines(task_queue)
        /\ session.pages_processed = Len(task_queue)
        /\ session.total_codes = InlineCount(task_queue, Status_OK)
        /\ session.pages_empty = InlineCount(task_queue, Status_NOT_FOUND)

\* a multi-worker run of three tasks that wrote lines and counted an empty page
C2_Witness ==
    /\ Uninterrupted
    /\ workers > 1
    /\ Len(task_queue) = 3
    /\ Len(SessRows) >= 2
    /\ session.pages_empty >= 1

(***************************************************************************)
(* C3  After a resume run that follows an interrupted run, the output file *)
(* holds every line of one uninterrupted run, in order, with the lines of  *)
(* at most one page per interrupt appearing twice.                         *)
(***************************************************************************)
\* the rows of one uninterrupted run over the whole input
FullRows == ResultsToCodes(AllResults(BuildTaskQueue(1, {})))

Occurrences(rows, row) == Cardinality({i \in 1..Len(rows) : rows[i] = row})

RECURSIVE FirstOccurrences(_, _)
\* rows with every repetition of an earlier row removed
FirstOccurrences(rows, seen) ==
    IF rows = <<>> THEN <<>>
    ELSE IF Head(rows) \in seen THEN FirstOccurrences(Tail(rows), seen)
    ELSE <<Head(rows)>> \o FirstOccurrences(Tail(rows), seen \cup {Head(rows)})

DuplicatedPages(rows) ==
    {r.src : r \in {q \in Range(rows) : Occurrences(rows, q) > Occurrences(FullRows, q)}}

C3_ResumeGivesFullOutput ==
    (/\ pc = "returned"
     /\ sessNo >= 2
     /\ resume
     /\ page_limit = NoLimit
     /\ interruptAt = "none") =>
        /\ FirstOccurrences(outFile.rows, {}) = FullRows
        /\ Cardinality(DuplicatedPages(outFile.rows)) <= interrupts

(***************************************************************************)
(* C4  In a resume run no page recorded in the progress sidecar when the   *)
(* run began is enumerated, handed to the page worker or written again.    *)
(***************************************************************************)
C4_DonePagesNotReprocessed ==
    (resume /\ Enumerated) =>
        /\ done_pages = StartProgPairs
        /\ Range(ordered_page_keys) \cap StartProgPairs = {}
        /\ dispatched \cap StartProgPairs = {}
        /\ SessProgPairs \cap StartProgPairs = {}
        /\ \A i \in 1..Len(SessRows) : SessRows[i].src \notin StartProgPairs

\* a resume run that skipped recorded pages and processed the others
C4_Witness ==
    /\ resume
    /\ pc = "returned"
    /\ StartProgPairs # {}
    /\ dispatched # {}
    /\ SessRows # <<>>

(***************************************************************************)
(* C5  After an interrupted multi-worker run the pairs the run added to    *)
(* the progress sidecar are exactly the tasks that had completed when the  *)
(* interrupt came.                                                         *)
(***************************************************************************)
InterruptedMultiReturned == pc = "returned" /\ interrupted /\ workers > 1

DispatchPositions ==
    {"s_next", "s_append", "m_submit", "m_wait", "m_stage", "m_drain", "m_extend",
     "f_progress", "f_codes", "f_clear"}

C6_InterruptCaught ==
    interruptAt \in DispatchPositions =>
        /\ pc # "raised"
        /\ pc = "returned" =>
              /\ session.interrupted
              /\ Range(committed) \subseteq SessProgPairs
              /\ \A r \in Range(ResultsToCodes(AllResults(task_queue))) :
                    r.src \in Range(committed) => r \in Range(SessRows)

(***************************************************************************)
(* C7  Every task of the previous run that the progress sidecar does not   *)
(* record is in the task list of the next resume run without a page limit. *)
(***************************************************************************)
C7_UnrecordedTasksReappear ==
    (resume /\ page_limit = NoLimit /\ Enumerated) =>
        \A k \in prevKeys \ StartProgPairs : k \in Range(ordered_page_keys)

\* a resume run after an interrupted one, with recorded and unrecorded pages
C7_Witness ==
    /\ resume
    /\ page_limit = NoLimit
    /\ pc \notin {"enumerate", "returned"}
    /\ interrupts >= 1
    /\ prevKeys \cap StartProgPairs # {}
    /\ Cardinality(prevKeys \ StartProgPairs) >= 2

(***************************************************************************)
(* C8  In an uninterrupted run the output lines are the raw_code values of *)
(* all Found outcomes, one line each, in task order.                       *)
(***************************************************************************)
RawCodes(queue) ==
    LET found == Found(AllResults(queue))
    IN  [i \in 1..Len(found) |-> found[i].datamatrix_raw]

C8_LinesAreRawCodes ==
    Uninterrupted => RowTexts(SessRows) = RawCodes(task_queue)

\* a character as the output shows it: 0x1D as <GS>, the other C0 controls
\* except tab, LF and CR as \xNN, everything else unchanged
ShownChar(ch) ==
    IF ch = 29 THEN <<60, 71, 83, 62>>
    ELSE IF ch \in 0..31 /\ ch \notin {9, 10, 13}
    THEN <<92, 120, HexDigit(ch \div 16), HexDigit(ch % 16)>>
    ELSE <<ch>>

ShownCode(raw) == FlatMap([i \in 1..Len(raw) |-> ShownChar(raw[i])], 1)

ShownCodes(queue) ==
    LET found == SelectSeq(Found(AllResults(queue)), LAMBDA r : r.datamatrix_raw # <<>>)
    IN  [i \in 1..Len(found) |-> ShownCode(found[i].datamatrix_raw)]

\* C8 as amended: every Found outcome with a non-empty raw_code gives one
\* line, its raw_code as the output shows it, in task order; a Found outcome
\* with an empty raw_code gives none; nothing else is written.
C8_LinesAreShownCodes ==
    Uninterrupted => RowTexts(SessRows) = ShownCodes(task_queue)

\* an uninterrupted run over a page with an empty raw_code and a page whose
\* raw_code holds control characters
C8_Witness ==
    /\ Uninterrupted
    /\ \E t \in Range(task_queue) : pageKind[t] = "OK_EMPTY"
    /\ \E t \in Range(task_queue) : pageKind[t] = "OK_CTRL"
    /\ Len(SessRows) >= 2

(***************************************************************************)
(* C9  For every pair a run wrote to the progress log, a code line of that *)
(* page was written by the same run, or the page was NotFound or Error.    *)
(***************************************************************************)
HasLine(k) == \E i \in 1..Len(SessRows) : SessRows[i].src = k

NoCodeOutcome(k) ==
    \A r \in Range(OutcomesOf(k)) : r.status \in {Status_NOT_FOUND, Status_ERROR}

EmptyCodeOutcome(k) ==
    \A r \in Range(OutcomesOf(k)) : r.status = Status_OK /\ r.datamatrix_raw = <<>>

C10_ProgressOnlyAfterCodes ==
    \A k \in ProgPairs(progFile.rows) :
        \A r \in Range(ResultsToCodes(OutcomesOf(k))) : r \in Range(outFile.rows)

(***************************************************************************)
(* C11  Every sink append leaves the lines the output file already holds   *)
(* unchanged: in every step the earlier content of the output file is a    *)
(* prefix of the new content, whatever the output path held before.        *)
(***************************************************************************)
C11_AppendLeavesEarlierLines == [][IsPrefix(outFile.rows, outFile'.rows)]_vars

(***************************************************************************)
(* C12  When run() has returned, after a completed or an interrupted       *)
(* session, pages_processed is the number of tasks dispatched and          *)
(* completed, and total_codes + pages_empty + the number of pages with an  *)
(* Error outcome is pages_processed.                                       *)
(***************************************************************************)
ErroredPages ==
    Cardinality({k \in dispatched :
                    \E r \in Range(OutcomesOf(k)) : r.status = Status_ERROR})

C12_CountersAgree ==
    pc = "returned" =>
        /\ session.pages_processed = Cardinality(dispatched)
        /\ session.total_codes + session.pages_empty + ErroredPages
              = session.pages_processed

(***************************************************************************)
(* C13  For every task the page worker returns a non-empty list that is    *)
(* one or more Found outcomes, or exactly one NotFound, or exactly one     *)
(* Error; a page whose rendering or decoding raises gives that single      *)
(* Error, run() is left by an exception only on an operator interrupt, and *)
(* an uninterrupted session processes and commits every task.              *)
(***************************************************************************)
OutcomeShape(rs) ==
    /\ rs # <<>>
    /\ \/ \A i \in 1..Len(rs) : rs[i].status = Status_OK
       \/ Len(rs) = 1 /\ rs[1].status = Status_NOT_FOUND
       \/ Len(rs) = 1 /\ rs[1].status = Status_ERROR

C13_WorkerErrorsAreOutcomes ==
    /\ \A t \in DOMAIN pageKind :
          /\ OutcomeShape(DecodeSinglePage(t[1], t[2]))
          /\ pageKind[t] = "ERROR" =>
                /\ Len(DecodeSinglePage(t[1], t[2])) = 1
                /\ DecodeSinglePage(t[1], t[2])[1].status = Status_ERROR
    /\ pc = "raised" => interruptAt # "none"
    /\ Uninterrupted =>
          /\ session.pages_processed = Len(task_queue)
          /\ committed = ordered_page_keys

\* an uninterrupted session in which a page that raised is followed by a page
\* whose code was written
C13_Witness ==
    /\ Uninterrupted
    /\ \E i \in 1..Len(task_queue) :
          /\ pageKind[task_queue[i]] = "ERROR"
          /\ \E j \in (i + 1)..Len(task_queue) :
                /\ pageKind[task_queue[j]] = "OK"
                /\ HasLine(ordered_page_keys[j])

(***************************************************************************)
(* C14  In an uninterrupted session every enumerated task is executed and  *)
(* committed exactly once, in task order, and the progress log gains       *)
(* exactly one entry per outcome of each task.                             *)
(***************************************************************************)
\* the pairs this call of run() has added to the sidecar, line by line
SessProgSeq ==
    LET added == SelectSeq(SubSeq(progFile.rows, progLen0 + 1, Len(progFile.rows)),
                           LAMBDA l : ~l.header)
    IN  [i \in 1..Len(added) |-> <<added[i].filename, added[i].page>>]

\* one pair per outcome of the task list, in task order
OutcomePairs(queue) ==
    [i \in 1..Len(AllResults(queue)) |->
        <<AllResults(queue)[i].filename, AllResults(queue)[i].page>>]

C14_EachTaskOnce ==
    Uninterrupted =>
        /\ \A i, j \in 1..Len(ordered_page_keys) :
              ordered_page_keys[i] = ordered_page_keys[j] => i = j
        /\ dispatched = Range(ordered_page_keys)
        /\ committed = ordered_page_keys
        /\ SessProgSeq = OutcomePairs(task_queue)

\* an uninterrupted multi-worker session of three tasks, flushed in two batches
C14_Witness ==
    /\ Uninterrupted
    /\ workers > 1
    /\ Len(task_queue) = 3
    /\ Len(SessProgSeq) = 3

(***************************************************************************)
(* C15  Normalization is idempotent: normalizing a normalized payload      *)
(* gives the same string.                                                  *)
(***************************************************************************)
C15_NormalizeIdempotent ==
    pstep \in {"renormalized", "parsed"} => code2 = code

(***************************************************************************)
(* C16  Whenever the parser sets gtin it is exactly 14 decimal digits, and *)
(* whenever it sets verification_key it is exactly 4 characters.           *)
(***************************************************************************)
C16_GtinAndKeyShape ==
    pstep = "parsed" =>
        /\ mark.gtin # None =>
              /\ Len(mark.gtin) = 14
              /\ \A i \in 1..Len(mark.gtin) : mark.gtin[i] \in 48..57
        /\ mark.verification_key # None => Len(mark.verification_key) = 4

(***************************************************************************)
(* C17  Whenever the parser sets serial, its length is at most 20          *)
(* characters, whichever terminator ended it.                              *)
(***************************************************************************)
C17_SerialAtMost20 ==
    pstep = "parsed" => (mark.serial # None => Len(mark.serial) <= 20)

(***************************************************************************)
(* C18  For every parsed code, is_valid is true if and only if gtin and    *)
(* serial are both set (not None).                                         *)
(***************************************************************************)
C18_ValidIffBothSet ==
    pstep = "parsed" =>
        (IsValid(mark) <=> (mark.gtin # None /\ mark.serial # None))

\* C18 as amended: is_valid is true if and only if gtin is set and serial is
\* set and not the empty string; a set gtin is never empty.
C18_ValidIffSetAndNonEmpty ==
    pstep = "parsed" =>
        /\ IsValid(mark) <=>
              (mark.gtin # None /\ mark.serial # None /\ mark.serial # <<>>)
        /\ mark.gtin # None => mark.gtin # <<>>

\* a code with a GTIN whose AI 21 is followed by nothing or by a separator
C18_Witness ==
    /\ pstep = "parsed"
    /\ mark.gtin # None
    /\ mark.serial = <<>>
    /\ ~IsValid(mark)

(***************************************************************************)
(* C19  The filter applied to each code string leaves every 0x1D, tab, LF  *)
(* and CR unchanged, replaces every other C0 control character by \xNN and *)
(* leaves every other character unchanged.                                 *)
(***************************************************************************)
KeptChar(ch) == IF ch = 29 THEN <<ch>> ELSE ShownChar(ch)

KeptCode(raw) == FlatMap([i \in 1..Len(raw) |-> KeptChar(raw[i])], 1)

C20_LoadProgressIsSidecar ==
    pc = "sink_idle" =>
        /\ LoadProgress(progFile, outFile) = ProgPairs(progFile.rows)
        /\ appended \subseteq LoadProgress(progFile, outFile)
        /\ ~progFile.exists => LoadProgress(progFile, outFile) = {}

(***************************************************************************)
(* C21  After any sequence of progress appends, from a sidecar that was    *)
(* missing, empty or populated, the sidecar holds the header line exactly  *)
(* once, as its first line, and load_progress reads every appended entry.  *)
(***************************************************************************)
C21_HeaderOnceAndFirst ==
    (pc = "sink_idle" /\ appended # {}) =>
        /\ progFile.exists
        /\ progFile.rows # <<>>
        /\ progFile.rows[1].header
        /\ \A i \in 2..Len(progFile.rows) : ~progFile.rows[i].header
        /\ appended \subseteq LoadProgress(progFile, outFile)

(***************************************************************************)
(* run() called again and again with --resume and the same page limit, on  *)
(* an output path never written, with no operator interrupt.               *)
(***************************************************************************)
\* calls of run() with a page limit
MaxLimitSessions == 3

\* page limits tried; cli.py:172-174 rejects a limit below 1
PageLimits == {1, 2}

\* the first call is a plain run, the later ones resume with the same
\* arguments
LimitedRun(w, l) ==
    /\ sessNo < MaxLimitSessions
    /\ sessNo > 0 => (w = workers /\ l = page_limit)
    /\ Call(w, sessNo > 0, l)

LimitNext ==
    \/ \E w \in 1..MaxWorkers, l \in PageLimits : LimitedRun(w, l)
    \/ Enumerate
    \/ SingleNext
    \/ SingleAppend
    \/ SingleCount
    \/ Submit
    \/ \E i \in 1..MaxTotalPages : FinishTask(i)
    \/ \E i \in 1..MaxTotalPages : AsCompleted(i)
    \/ AllCompleted
    \/ Stage
    \/ DrainPop
    \/ DrainExtend
    \/ DrainBreak
    \/ ExecutorExit
    \/ FlushProgress
    \/ FlushCodes
    \/ FlushClear
    \/ FinalFlush
    \/ Return

LimitSpec == Init /\ [][LimitNext]_vars

(***************************************************************************)
(* C22  With a page limit L a session processes exactly the first          *)
(* min(L, n) tasks of the task list left after resume filtering, across    *)
(* file boundaries; resume sessions with the same limit process            *)
(* consecutive disjoint slices of the whole task list and in the end cover *)
(* every page.                                                             *)
(***************************************************************************)
\* the page keys of the whole input, in task order
FullKeys == PageKeys(BuildTaskQueue(1, {}))

\* every pair the sidecar holds, line by line
ProgSeq ==
    LET lines == SelectSeq(progFile.rows, LAMBDA l : ~l.header)
    IN  [i \in 1..Len(lines) |-> <<lines[i].filename, lines[i].page>>]

C22_LimitTakesConsecutiveSlices ==
    (pc = "returned" /\ page_limit # NoLimit) =>
        LET filtered == PageKeys(BuildTaskQueue(1, done_pages))
            n == Len(filtered)
        IN  /\ ordered_page_keys = SubSeq(filtered, 1, Min(page_limit, n))
            /\ dispatched = Range(ordered_page_keys)
            /\ SessProgSeq = ordered_page_keys
            /\ StartProgPairs \cap Range(ordered_page_keys) = {}
            /\ ProgSeq = SubSeq(FullKeys, 1, Min(sessNo * page_limit, Len(FullKeys)))
            /\ sessNo * page_limit >= Len(FullKeys) =>
                  ProgPairs(progFile.rows) = Range(FullKeys)

\* the third session with limit 1 over three pages of two files: each session
\* took one page, the last one from the second file
C22_Witness ==
    /\ pc = "returned"
    /\ page_limit = 1
    /\ sessNo = 3
    /\ Len(FullKeys) = 3
    /\ FullKeys[1][1] # FullKeys[3][1]
    /\ ordered_page_keys = <<FullKeys[3]>>
    /\ ProgSeq = FullKeys

(***************************************************************************)
(* C23  When the page count of a PDF cannot be read, one error message is  *)
(* recorded for the file, it is counted in files_with_errors and gives no  *)
(* task; the pages of every other file are still enumerated and, when the  *)
(* session is not interrupted, processed; processed_files +                *)
(* files_with_errors is total_files.                                       *)
(***************************************************************************)
Unreadable(f) == pageCount[f] < 0

C23_UnreadableFileIsSkipped ==
    (sessNo >= 1 /\ Enumerated) =>
        /\ \A f \in Range(Files) :
              Cardinality({i \in 1..Len(session.errors) : session.errors[i] = f})
                 = IF Unreadable(f) THEN 1 ELSE 0
        /\ session.files_with_errors = Cardinality({f \in Range(Files) : Unreadable(f)})
        /\ \A i \in 1..Len(task_queue) : ~Unreadable(task_queue[i][1])
        /\ page_limit = NoLimit =>
              \A f \in Range(Files) : \A p \in 1..pageCount[f] :
                  <<f, p>> \in Range(ordered_page_keys) \cup done_pages
        /\ Uninterrupted => dispatched = Range(ordered_page_keys)
        /\ session.processed_files + session.files_with_errors = session.total_files

\* an uninterrupted session over an unreadable first file and a second file
\* whose two pages were processed
C23_Witness ==
    /\ Uninterrupted
    /\ ~resume
    /\ Unreadable(Files[1])
    /\ pageCount[Files[2]] = 2
    /\ Cardinality(dispatched) = 2
    /\ session.files_with_errors = 1

(***************************************************************************)
(* The page worker on one page, pass by pass: _decode_single_page          *)
(* (processor.py:59-68) calling render_page and decode_datamatrix          *)
(* (decoder.py:41-76).  ROI_NORM is None in converter.py:15; a configured  *)
(* region is the other value the worker tests for.                         *)
(***************************************************************************)
DecodePasses == {"roi_raw", "roi_pre", "full_raw", "full_pre"}

WorkerInit ==
    /\ RunIdle /\ ParserIdle
    /\ outFile = MissingFile /\ progFile = MissingFile /\ pc = "idle"
    /\ appends = 0 /\ appended = {}
    /\ roiSet \in BOOLEAN
    /\ renders \in [{"roi", "full"} -> {"ok", "raise"}]
    /\ decodes \in [DecodePasses -> {"empty", "payload", "raise"}]
    /\ image = "roi"
    /\ hasCodes = FALSE
    /\ wpc = "render"
    /\ trace = <<>>
    /\ wresult = "none"
    /\ parts = <<>> /\ encoded = <<>>

workerEnv == <<runVars, parserVars, sinkVars, encVars, roiSet, renders, decodes>>

\* render_page(pdf_path, page_num, dpi, use_roi) of lines 60 and 66; an
\* exception goes to the handler of lines 97-105
RenderPage ==
    /\ wpc = "render"
    /\ trace' = Append(trace, "render_" \o image)
    /\ IF renders[image] = "raise"
       THEN wpc' = "done" /\ wresult' = "error"
       ELSE wpc' = "raw" /\ wresult' = wresult
    /\ UNCHANGED <<workerEnv, image, hasCodes>>

\* decode_datamatrix, lines 56-63: the pass without preprocessing
DecodeRaw ==
    /\ wpc = "raw"
    /\ trace' = Append(trace, image \o "_raw")
    /\ LET got == decodes[image \o "_raw"]
       IN  /\ wpc' = CASE got = "raise" -> "done"
                       [] got = "payload" -> "decoded"
                       [] OTHER -> "pre"
           /\ wresult' = IF got = "raise" THEN "error" ELSE wresult
           /\ hasCodes' = (got = "payload")
    /\ UNCHANGED <<workerEnv, image>>

\* decode_datamatrix, lines 65-76: the pass on the preprocessed image
DecodePre ==
    /\ wpc = "pre"
    /\ trace' = Append(trace, image \o "_pre")
    /\ LET got == decodes[image \o "_pre"]
       IN  /\ wpc' = IF got = "raise" THEN "done" ELSE "decoded"
           /\ wresult' = IF got = "raise" THEN "error" ELSE wresult
           /\ hasCodes' = (got = "payload")
    /\ UNCHANGED <<workerEnv, image>>

\* the full page taken whenever the region gave nothing
NeedsFullPageAlways(found, roi) == ~found

\* line 65: if not codes and ROI_NORM is not None
NeedsFullPage(found, roi) == ~found /\ roi

\* lines 65-95: the full page is tried, or the results are returned
AfterDecode ==
    /\ wpc = "decoded"
    /\ IF image = "roi" /\ NeedsFullPage(hasCodes, roiSet)
       THEN /\ image' = "full"
            /\ wpc' = "render"
            /\ wresult' = wresult
       ELSE /\ image' = image
            /\ wpc' = "done"
            /\ wresult' = IF hasCodes THEN "found" ELSE "not_found"
    /\ UNCHANGED <<workerEnv, hasCodes, trace>>

WorkerNext == RenderPage \/ DecodeRaw \/ DecodePre \/ AfterDecode

WorkerSpec == WorkerInit /\ [][WorkerNext]_vars

(***************************************************************************)
(* C24  The worker tries the passes in the order ROI-raw, ROI-preprocessed,*)
(* full-page-raw, full-page-preprocessed and stops at the first pass that  *)
(* returns a payload; a preprocessed pass runs only when the raw pass on   *)
(* the same image was empty; the full page is rendered only when both ROI  *)
(* passes were empty and a ROI is configured; with no ROI configured there *)
(* is one render and at most two passes.                                   *)
(***************************************************************************)
PassOrder == <<"render_roi", "roi_raw", "roi_pre", "render_full", "full_raw", "full_pre">>

PassIndex(e) == CHOOSE i \in 1..Len(PassOrder) : PassOrder[i] = e

Did(e) == e \in Range(trace)

WasEmpty(e) == Did(e) /\ decodes[e] = "empty"

C24_PassOrder ==
    wpc = "done" =>
        /\ \A i \in 1..(Len(trace) - 1) : PassIndex(trace[i]) < PassIndex(trace[i + 1])
        /\ \A i \in 1..(Len(trace) - 1) :
              trace[i] \in DecodePasses => decodes[trace[i]] = "empty"
        /\ Did("roi_pre") => WasEmpty("roi_raw")
        /\ Did("full_pre") => WasEmpty("full_raw")
        /\ Did("render_full") => (roiSet /\ WasEmpty("roi_raw") /\ WasEmpty("roi_pre"))
        /\ (roiSet /\ WasEmpty("roi_raw") /\ WasEmpty("roi_pre")) => Did("render_full")
        /\ ~roiSet => (~Did("render_full") /\ Len(trace) <= 3)
        /\ wresult = "found" <=>
              (trace[Len(trace)] \in DecodePasses /\ decodes[trace[Len(trace)]] = "payload")
        /\ wresult = "not_found" =>
              \A e \in Range(trace) \cap DecodePasses : decodes[e] = "empty"

\* a configured ROI, three empty passes, and a payload on the last pass
C24_Witness ==
    /\ wpc = "done"
    /\ roiSet
    /\ trace = PassOrder
    /\ wresult = "found"

(***************************************************************************)
(* C25  In the buffer left by prefix stripping and visible-token           *)
(* replacement, every GS91, GS92 or GS93 that starts at offset 18 or later *)
(* has its letters GS replaced by one 0x1D, and nothing that starts before *)
(* offset 18 is changed.                                                   *)
(***************************************************************************)
\* the buffer the repair of lines 60-70 starts from
RepairBuffer == SubVisibleGS(StripPrefixes(Strip(raw_code)))

\* the letters GS followed by 91, 92 or 93 stand at offset i of s
MarkerAt(s, i) ==
    \E ai \in {AI_91, AI_CRYPTO, AI_93} : MatchesAt(s, LettersGS \o ai, i)

RECURSIVE RepairedFrom(_, _)
\* s from offset i on, with every marker at offset 18 or later repaired
RepairedFrom(s, i) ==
    IF i >= Len(s) THEN <<>>
    ELSE IF i >= 18 /\ MarkerAt(s, i) THEN <<GS>> \o RepairedFrom(s, i + 2)
    ELSE <<s[i + 1]>> \o RepairedFrom(s, i + 1)

C25_RepairFromOffset18 ==
    pstep # "input" =>
        /\ code = RepairedFrom(RepairBuffer, 0)
        /\ Slice(code, 0, 18) = Slice(RepairBuffer, 0, 18)
        /\ \A i \in 0..(Len(code) - 4) : i >= 18 => ~MarkerAt(code, i)

\* markers before offset 18 kept and markers after it repaired
C25_Witness ==
    /\ pstep = "normalized"
    /\ \E i \in 0..17 : MarkerAt(RepairBuffer, i) /\ MarkerAt(code, i)
    /\ \E i \in 18..Len(RepairBuffer) : MarkerAt(RepairBuffer, i)
    /\ Len(code) < Len(RepairBuffer)

(***************************************************************************)
(* One code, 01 GTIN 21 serial SEP 91 key SEP 92 crypto, written with each *)
(* separator encoding and handed to normalize_gs1_raw and                  *)
(* parse_honest_mark.                                                      *)
(***************************************************************************)
\* the separator encodings: the byte 0x1D, the visible tokens "<GS>", "[gs]"
\* and "^]", and the letters "GS"
Separators ==
    [byte |-> <<GS>>, token |-> <<60, 71, 83, 62>>, bracket |-> <<91, 103, 115, 93>>,
     caret |-> <<94, 93>>, letters |-> LettersGS]

\* GTINs: 04601234567890 and 01010101010101
EncGtins == {Digits13 \o <<48>>, <<48, 49, 48, 49, 48, 49, 48, 49, 48, 49, 48, 49, 48, 49>>}

\* serials: none, "A", "ABC<", "GS92", "XG", 21 letters
EncSerials ==
    {<<>>, <<65>>, <<65, 66, 67, 60>>, LettersGS \o AI_CRYPTO, <<88, 71>>,
     [i \in 1..21 |-> 65]}

\* keys: "XYZA", "GS9G", "9192"
EncKeys == {<<88, 89, 90, 65>>, <<71, 83, 57, 71>>, <<57, 49, 57, 50>>}

\* crypto tails: "CCCC", none, "C92D"
EncCryptos == {<<67, 67, 67, 67>>, <<>>, <<67, 57, 50, 68>>}

Encode(p, sep) ==
    AI_GTIN \o p.gtin \o AI_SERIAL \o p.serial \o sep \o AI_91 \o p.key
        \o sep \o AI_CRYPTO \o p.crypto

EncInit ==
    /\ RunIdle /\ ParserIdle
    /\ outFile = MissingFile /\ progFile = MissingFile /\ pc = "idle"
    /\ appends = 0 /\ appended = {}
    /\ roiSet = FALSE /\ renders = <<>> /\ decodes = <<>> /\ image = "none"
    /\ hasCodes = FALSE /\ wpc = "off" /\ trace = <<>> /\ wresult = "none"
    /\ parts \in [gtin : EncGtins, serial : EncSerials, key : EncKeys,
                  crypto : EncCryptos]
    /\ encoded = <<>>

\* normalize_gs1_raw and parse_honest_mark on the code written with
\* separator e
NormalizeEncoded(e) ==
    /\ parts # <<>>
    /\ e \in DOMAIN Separators
    /\ e \notin DOMAIN encoded
    /\ encoded' = (e :> [code |-> NormalizeGs1Raw(Encode(parts, Separators[e])),
                         mark |-> ParseHonestMark(Encode(parts, Separators[e]))])
                  @@ encoded
    /\ UNCHANGED <<runVars, parserVars, sinkVars, workerVars, parts>>

EncNext == \E e \in DOMAIN Separators : NormalizeEncoded(e)

EncSpec == EncInit /\ [][EncNext]_vars

(***************************************************************************)
(* C26  For a code of the shape 01 GTIN(14 digits) 21 serial SEP 91        *)
(* key(4) SEP 92 crypto, the encodings of SEP as the byte 0x1D, as a       *)
(* visible token and as the letters GS normalize to the same string and    *)
(* parse to the same gtin, serial, verification_key and crypto.            *)
(***************************************************************************)
C26_EncodingsAgree ==
    \A e1 \in DOMAIN encoded : \A e2 \in DOMAIN encoded :
        /\ encoded[e1].code = encoded[e2].code
        /\ encoded[e1].mark = encoded[e2].mark

\* the three kinds of encoding tried on a code with a serial; the fields
\* come back as written
C26_Witness ==
    /\ {"byte", "token", "letters"} \subseteq DOMAIN encoded
    /\ parts.serial = <<65>>
    /\ encoded["letters"].mark.gtin = parts.gtin
    /\ encoded["letters"].mark.serial = parts.serial
    /\ encoded["letters"].mark.verification_key = parts.key
    /\ encoded["letters"].mark.crypto = parts.crypto

(***************************************************************************)
(* C27  When the 14 characters after the first AI 01 are not 14 decimal    *)
(* digits, the parser returns gtin = None and serial, verification_key and *)
(* crypto None as well, the raw field holding the normalized string (which *)
(* the worker writes as a Found outcome).                                  *)
(***************************************************************************)
\* the characters after the first "01" of the normalized code
GtinField == Slice(code, Find(code, AI_GTIN, 0) + 2, Find(code, AI_GTIN, 0) + 16)

FourteenDecimalDigits(s) == Len(s) = 14 /\ \A i \in 1..Len(s) : s[i] \in 48..57

C27_BadGtinGivesNoFields ==
    (pstep = "parsed" /\ Find(code, AI_GTIN, 0) # 0 - 1
        /\ ~FourteenDecimalDigits(GtinField)) =>
        /\ mark.raw = code
        /\ mark.gtin = None
        /\ mark.serial = None
        /\ mark.verification_key = None
        /\ mark.crypto = None

(***************************************************************************)
(* One multi-worker run on a fresh output path, with more tasks than       *)
(* workers and no operator interrupt.                                      *)
(***************************************************************************)
PoolPages == 2

\* every input file has PoolPages pages, or the last one has a page less; a
\* page decodes or fails
PoolInit ==
    /\ pageCount \in {[f \in Range(Files) |-> PoolPages],
                      [f \in Range(Files) |->
                          IF f = Files[Len(Files)] THEN PoolPages - 1 ELSE PoolPages]}
    /\ pageKind \in [PageSet(pageCount) -> {"OK", "ERROR"}]
    /\ outFile = MissingFile /\ progFile = MissingFile /\ pc = "idle"
    /\ workers = 1 /\ resume = FALSE /\ page_limit = NoLimit
    /\ session = SessionStats(0)
    /\ done_pages = {} /\ task_queue = <<>> /\ ordered_page_keys = <<>>
    /\ buffer = <<>> /\ interrupted = FALSE
    /\ ready_pages = <<>> /\ next_page_idx = 0
    /\ fut = <<>> /\ yielded = {} /\ cur = 0 /\ results = <<>> /\ ridx = 0
    /\ ret = "none"
    /\ sessNo = 0 /\ interrupts = 0 /\ committed = <<>>
    /\ outLen0 = 0 /\ progLen0 = 0 /\ doneAtInterrupt = {}
    /\ interruptAt = "none" /\ dispatched = {} /\ prevKeys = {}
    /\ ParserIdle /\ SinkIdle

\* run() is called once, with more than one worker
PoolRun(w) == sessNo = 0 /\ w > 1 /\ Call(w, FALSE, NoLimit)

\* the main thread between the call and the return
MainThread ==
    \/ Enumerate
    \/ Submit
    \/ \E i \in 1..(Len(Files) * PoolPages) : AsCompleted(i)
    \/ AllCompleted
    \/ Stage
    \/ DrainPop
    \/ DrainExtend
    \/ DrainBreak
    \/ ExecutorExit
    \/ FlushProgress
    \/ FlushCodes
    \/ FlushClear
    \/ FinalFlush
    \/ Return

PoolNext ==
    \/ \E w \in 2..MaxWorkers : PoolRun(w)
    \/ MainThread
    \/ \E i \in 1..(Len(Files) * PoolPages) : FinishTask(i)

PoolSpec == PoolInit /\ [][PoolNext]_vars

(***************************************************************************)
(* C28  In multi-worker mode with W workers the staging map never holds    *)
(* more than W completed-but-uncommitted pages, whatever the number of     *)
(* tasks.                                                                  *)
(***************************************************************************)
C28_StagingAtMostWorkers ==
    workers > 1 => Cardinality(DOMAIN ready_pages) <= workers

(***************************************************************************)
(* C29  The buffer is flushed as soon as it holds SAVE_EVERY entries after *)
(* a page's outcomes are added: between task completions it holds fewer    *)
(* than SAVE_EVERY entries; and when run() returns after dispatch,         *)
(* completed or interrupted, the buffer is empty and every committed       *)
(* outcome has been handed to the sink and written.                        *)
(***************************************************************************)
\* the main thread is about to take the next task or the next completed future
BetweenCompletions == pc \in {"s_next", "m_wait"}

\* run() has returned, not raised, after dispatching tasks
ReturnedAfterDispatch == pc = "returned" /\ Len(task_queue) > 0

\* the lines this call wrote for page k
RowsOf(k) == SelectSeq(SessRows, LAMBDA row : row.src = k)

C29_BufferFlushedAtSaveEvery ==
    /\ BetweenCompletions => Len(buffer) < SAVE_EVERY
    /\ ReturnedAfterDispatch =>
          /\ buffer = <<>>
          /\ Range(committed) \subseteq SessProgPairs
          /\ \A k \in Range(committed) :
                Len(RowsOf(k)) >= Len(ResultsToCodes(OutcomesOf(k)))

\* a run that flushed in the dispatch loop and again at the end
C29_Witness ==
    /\ ReturnedAfterDispatch
    /\ Len(committed) > SAVE_EVERY
    /\ Range(committed) = SessProgPairs
    /\ Len(SessRows) > SAVE_EVERY

(***************************************************************************)
(* The same run under the scheduling the program has when no interrupt     *)
(* comes: the main thread keeps running its loop, and every task handed to *)
(* a worker process returns.                                               *)
(***************************************************************************)
LiveSpec ==
    /\ PoolInit
    /\ [][PoolNext]_vars
    /\ WF_vars(MainThread)
    /\ \A i \in 1..(Len(Files) * PoolPages) : WF_vars(FinishTask(i))

(***************************************************************************)
(* C30  In multi-worker mode, with no interrupt and every submitted task   *)
(* completing, the run eventually returns with interrupted = false, the    *)
(* commit cursor at the end of the ordered task list, the staging map      *)
(* empty and every task's outcomes flushed to the sink.                    *)
(***************************************************************************)
AllFlushed ==
    /\ buffer = <<>>
    /\ SessProgPairs = Range(ordered_page_keys)
    /\ \A k \in Range(ordered_page_keys) :
          Len(RowsOf(k)) = Len(ResultsToCodes(OutcomesOf(k)))

RunCompleted ==
    /\ pc = "returned"
    /\ ~interrupted /\ ~session.interrupted
    /\ next_page_idx = Len(ordered_page_keys)
    /\ DOMAIN ready_pages = {}
    /\ AllFlushed

C30_MultiRunCompletes == (pc = "m_submit") ~> RunCompleted

\* a completed run of four tasks, some decoded and some failed
C30_Witness ==
    /\ RunCompleted
    /\ workers > 1
    /\ Len(ordered_page_keys) = Len(Files) * PoolPages
    /\ session.pages_processed = Len(ordered_page_keys)
    /\ SessRows # <<>>
    /\ Len(SessRows) < Len(ordered_page_keys)

====
